---- MODULE Spec2Model ----
(***************************************************************************)
(* Model of the provider fallback core (llm/factory.py, llm/base.py and    *)
(* the four adapters) and of the chat handler with its in-memory session   *)
(* registry (routers/chat.py).                                             *)
(*                                                                         *)
(* Text values are tuples of tokens, so that an f-string is a              *)
(* concatenation: f"{operation} failed: {e}" is <<operation, "failed">>    *)
(* \o e.  Python's None is the distinguished text PyNone; the empty        *)
(* string is <<>>.  Both are falsy.                                        *)
(***************************************************************************)
EXTENDS Naturals, Integers, Sequences, FiniteSets, TLC

(***************************************************************************)
(* Bounds of the model                                                     *)
(***************************************************************************)
NumBackends == 3
MaxOrderLen == 3
MaxRequests == 2

(***************************************************************************)
(* Python values                                                           *)
(***************************************************************************)
PyNone == <<"<None>">>

Str(x) == IF x = PyNone THEN <<"None">> ELSE x

Falsy(x) == x = PyNone \/ x = <<>>

\* an absent (None) or empty provider name: `if preferred_provider and ...`
NoProvider == ""

(***************************************************************************)
(* llm/factory.py: the class registry                                      *)
(***************************************************************************)
ProviderNames == <<"openai", "claude", "gemini", "huggingface">>

PROVIDERS ==
    [openai |-> <<"O","p","e","n","A","I","P","r","o","v","i","d","e","r">>,
     claude |-> <<"C","l","a","u","d","e","P","r","o","v","i","d","e","r">>,
     gemini |-> <<"G","e","m","i","n","i","P","r","o","v","i","d","e","r">>,
     huggingface |-> <<"H","u","g","g","i","n","g","F","a","c","e",
                       "P","r","o","v","i","d","e","r">>]

\* the backends of the configuration under test
Backends == {ProviderNames[i] : i \in 1..NumBackends}

\* faulty variant: an adapter copied from the OpenAI one keeps its literal
ProviderLiteral_Copied ==
    [openai |-> "openai", claude |-> "openai", gemini |-> "openai",
     huggingface |-> "openai"]

\* the provider= literal each adapter writes into a successful response
ProviderLiteral ==
    [openai |-> "openai", claude |-> "claude", gemini |-> "gemini",
     huggingface |-> "huggingface"]

\* provider_config.model of each backend
ConfiguredModel ==
    [openai |-> "model-openai", claude |-> "model-claude",
     gemini |-> "model-gemini", huggingface |-> "model-huggingface"]

(***************************************************************************)
(* str.replace("Provider", "") and str.lower() on a class name             *)
(***************************************************************************)
ProviderWord == <<"P","r","o","v","i","d","e","r">>

LowerChar(c) ==
    CASE c = "O" -> "o" [] c = "A" -> "a" [] c = "I" -> "i" [] c = "C" -> "c"
      [] c = "G" -> "g" [] c = "H" -> "h" [] c = "F" -> "f" [] c = "P" -> "p"
      [] OTHER -> c

Lower(s) == [i \in 1..Len(s) |-> LowerChar(s[i])]

StartsWith(s, w) == Len(s) >= Len(w) /\ SubSeq(s, 1, Len(w)) = w

RECURSIVE ReplaceWithEmpty(_, _)
ReplaceWithEmpty(s, w) ==
    IF s = <<>> THEN <<>>
    ELSE IF StartsWith(s, w) THEN ReplaceWithEmpty(SubSeq(s, Len(w) + 1, Len(s)), w)
    ELSE <<Head(s)>> \o ReplaceWithEmpty(Tail(s), w)

\* the characters of a backend id
IdChars ==
    [openai |-> <<"o","p","e","n","a","i">>,
     claude |-> <<"c","l","a","u","d","e">>,
     gemini |-> <<"g","e","m","i","n","i">>,
     huggingface |-> <<"h","u","g","g","i","n","g","f","a","c","e">>]

\* the string made of the given characters: a backend id, or some other string
AsString(chars) ==
    IF \E n \in DOMAIN IdChars : IdChars[n] = chars
    THEN CHOOSE n \in DOMAIN IdChars : IdChars[n] = chars
    ELSE "<other>"

(***************************************************************************)
(* llm/base.py: LLMResponse and BaseLLMProvider._handle_error              *)
(***************************************************************************)
LLMResponse(content, model, provider, finish_reason, error) ==
    [content |-> content, model |-> model, provider |-> provider,
     finish_reason |-> finish_reason, error |-> error]

AdapterApology == <<"I apologize, but I encountered an error processing your request. Please try again.">>

\* faulty variant: the class name is not lower-cased
ClassNameProviderId_NoLower(name) ==
    AsString(ReplaceWithEmpty(PROVIDERS[name], ProviderWord))

ClassNameProviderId(name) ==
    AsString(Lower(ReplaceWithEmpty(PROVIDERS[name], ProviderWord)))

HandleError(name, error, operation) ==
    LLMResponse(AdapterApology, ConfiguredModel[name], ClassNameProviderId(name),
                "error", <<operation, "failed:">> \o Str(error))

(***************************************************************************)
(* The adapters' generate_response.  sdk is what the backend's client call *)
(* did: it returned a completion (content, finish_reason) or it raised.    *)
(***************************************************************************)
SdkFailures == {<<"timeout">>, <<"auth">>}

\* a completion with text, one cut off before any text and, where the
\* client types the content as optional (message.content), one without content
SdkCompletions(name) ==
    {[kind |-> "returns", content |-> <<"answer">>, finish_reason |-> "stop",
      error |-> PyNone],
     [kind |-> "returns", content |-> <<>>, finish_reason |-> "length",
      error |-> PyNone]}
    \cup (IF name \in {"openai", "huggingface"}
          THEN {[kind |-> "returns", content |-> PyNone,
                 finish_reason |-> "content_filter", error |-> PyNone]}
          ELSE {})

SdkOutcomes(name) ==
    SdkCompletions(name)
    \cup [kind : {"raises"}, content : {PyNone}, finish_reason : {"-"},
          error : SdkFailures]

GenerateResponse(name, sdk) ==
    IF sdk.kind = "returns"
    THEN LLMResponse(sdk.content, ConfiguredModel[name], ProviderLiteral[name],
                     sdk.finish_reason, PyNone)
    ELSE HandleError(name, sdk.error, "generate_response")


(***************************************************************************)
(* BaseLLMProvider.__init__ keeps timeout in self.timeout; validate_config *)
(* builds the client from the api key alone and generate_response passes   *)
(* no timeout to the client call, so how long the call waits is up to the  *)
(* client library and the backend.  Time is counted in ticks.              *)
(***************************************************************************)
\* the largest timeout a backend is configured with
MaxTimeout == 2

\* how long the model follows a wait: past every configured timeout
WaitLimit == MaxTimeout + 1

IdleSdk(timeout) == [timeout |-> timeout, waiting |-> FALSE, elapsed |-> 0]

(***************************************************************************)
(* State                                                                   *)
(***************************************************************************)
VARIABLES
    providers,           \* LLMFactory._providers: the names of the live adapters
    default_provider,    \* config.llm.default_provider
    enable_fallback,     \* config.llm.enable_fallback
    fallback_order,      \* config.llm.fallback_order
    gpc,                 \* position of generate_with_fallback: idle, loop, done
    preferred_provider,  \* its argument
    providers_to_try,    \* its candidate list
    idx,                 \* position of its for loop in providers_to_try
    last_error,          \* its last_error
    attempts,            \* the generate_response calls it has made, in order
    response,            \* what it returned
    conversations,       \* routers/chat.py conversations: session id -> session
    conv_keys,           \* the keys of conversations in insertion (dict) order
    now,                 \* the wall clock, datetime.now(), in seconds
    chat,                \* the chat request being handled on the event loop
    chat_response,       \* the reply to the last chat request
    cleanup_tasks,       \* background cleanup tasks scheduled and not yet started
    reaper,              \* the cleanup_old_sessions task running in the thread pool
    nreq,                \* chat requests received so far
    history_reply,       \* the reply to the last request on /history/{session_id}
    index,               \* the vector index: what a search of it yields
    context_data,        \* what DocumentRetriever().retrieve_context(query) gave
    sdk_wait,            \* the adapter's timeout and its wait for the client call
    llm_config,          \* config.llm.providers: backend name -> its configuration
    build,               \* LLMFactory._initialize_providers: the entries still to do
    lookup,              \* the last call of LLMFactory.get_provider and its result
    switch_reply,        \* the reply to the last POST /api/config/provider/{name}
    stream,              \* the request being served by chat_stream and its events
    runs,                \* the calls of generate_with_fallback made so far
    messages             \* the request chat() got and the messages it built from it

factory_vars == <<providers, default_provider, enable_fallback, fallback_order>>

call_vars == <<gpc, preferred_provider, providers_to_try, idx, last_error,
               attempts, response>>

Range(s) == {s[i] : i \in 1..Len(s)}

SeqsUpTo(S, n) == UNION {[1..k -> S] : k \in 0..n}

NoResponse == LLMResponse(PyNone, "-", "-", "-", PyNone)

NoSdk == [kind |-> "-", content |-> PyNone, finish_reason |-> "-", error |-> PyNone]

(***************************************************************************)
(* LLMFactory.generate_with_fallback                                       *)
(***************************************************************************)
\* faulty variant: the fallback order is not de-duplicated
RECURSIVE AppendFallback_NoDedup(_, _)
AppendFallback_NoDedup(order, acc) ==
    IF order = <<>> THEN acc
    ELSE AppendFallback_NoDedup(Tail(order),
                                IF Head(order) \in providers
                                THEN Append(acc, Head(order))
                                ELSE acc)

\* for provider_name in fallback_order: append if not yet listed and live
RECURSIVE AppendFallback(_, _)
AppendFallback(order, acc) ==
    IF order = <<>> THEN acc
    ELSE AppendFallback(Tail(order),
                        IF Head(order) \notin Range(acc) /\ Head(order) \in providers
                        THEN Append(acc, Head(order))
                        ELSE acc)

\* faulty variant: without a preferred backend the default one comes first
BuildProviderOrder_DefaultFirst(preferred) ==
    LET first == IF preferred # NoProvider /\ preferred \in providers
                 THEN <<preferred>>
                 ELSE IF default_provider \in providers
                 THEN <<default_provider>> ELSE <<>>
    IN  IF enable_fallback THEN AppendFallback(fallback_order, first) ELSE first

BuildProviderOrder(preferred) ==
    LET first == IF preferred # NoProvider /\ preferred \in providers
                 THEN <<preferred>> ELSE <<>>
    IN  IF enable_fallback THEN AppendFallback(fallback_order, first) ELSE first

UnexpectedError == <<"unexpected">>

\* what one provider.generate_response(...) call does, seen from the loop:
\* the adapter returns its response, or an exception escapes the call
CallOutcomes(name) ==
    {[raised |-> FALSE, name |-> name, sdk |-> s,
      result |-> GenerateResponse(name, s), exc |-> PyNone] : s \in SdkOutcomes(name)}
    \cup {[raised |-> TRUE, name |-> name, sdk |-> NoSdk,
           result |-> NoResponse, exc |-> UnexpectedError]}

FallbackApology == <<"I apologize, but I'm currently unable to process your request. Please try again later.">>

\* faulty variant: the first line of the message only
AllFailedResponse_NoLast(last) ==
    LLMResponse(FallbackApology, "unknown", "none", "error",
                <<"All providers failed.">>)

AllFailedResponse(last) ==
    LLMResponse(FallbackApology, "unknown", "none", "error",
                <<"All providers failed. Last error:">> \o Str(last))

\* lines 121-133: build the candidate list, enter the loop
CallStart(preferred) ==
    /\ gpc = "idle"
    /\ gpc' = "loop"
    /\ preferred_provider' = preferred
    /\ providers_to_try' = BuildProviderOrder(preferred)
    /\ idx' = 1
    /\ last_error' = PyNone
    /\ attempts' = <<>>
    /\ response' = NoResponse
    /\ UNCHANGED factory_vars

\* faulty variant: a usable response does not end the loop
TryProvider_NoReturn ==
    /\ gpc = "loop"
    /\ idx <= Len(providers_to_try)
    /\ \E out \in CallOutcomes(providers_to_try[idx]) :
          /\ attempts' = Append(attempts, out)
          /\ IF out.raised
             THEN /\ last_error' = Str(out.exc)
                  /\ UNCHANGED response
             ELSE IF out.result.finish_reason # "error"
             THEN /\ response' = out.result
                  /\ UNCHANGED last_error
             ELSE /\ last_error' = out.result.error
                  /\ UNCHANGED response
    /\ idx' = idx + 1
    /\ UNCHANGED <<gpc, preferred_provider, providers_to_try>>
    /\ UNCHANGED factory_vars

\* lines 134-155: one iteration of the loop
TryProvider ==
    /\ gpc = "loop"
    /\ idx <= Len(providers_to_try)
    /\ \E out \in CallOutcomes(providers_to_try[idx]) :
          /\ attempts' = Append(attempts, out)
          /\ IF out.raised
             THEN /\ last_error' = Str(out.exc)
                  /\ idx' = idx + 1
                  /\ UNCHANGED <<gpc, response>>
             ELSE IF out.result.finish_reason # "error"
             THEN /\ response' = out.result
                  /\ gpc' = "done"
                  /\ UNCHANGED <<idx, last_error>>
             ELSE /\ last_error' = out.result.error
                  /\ idx' = idx + 1
                  /\ UNCHANGED <<gpc, response>>
    /\ UNCHANGED <<preferred_provider, providers_to_try>>
    /\ UNCHANGED factory_vars

\* lines 157-167: the loop ran out of candidates
AllProvidersFailed ==
    /\ gpc = "loop"
    /\ idx > Len(providers_to_try)
    /\ response' = AllFailedResponse(last_error)
    /\ gpc' = "done"
    /\ UNCHANGED <<preferred_provider, providers_to_try, idx, last_error, attempts>>
    /\ UNCHANGED factory_vars

\* the caller has taken the result
CallReturn ==
    /\ gpc = "done"
    /\ gpc' = "idle"
    /\ preferred_provider' = NoProvider
    /\ providers_to_try' = <<>>
    /\ idx' = 1
    /\ last_error' = PyNone
    /\ attempts' = <<>>
    /\ response' = NoResponse
    /\ UNCHANGED factory_vars

InitFactory ==
    /\ providers \in SUBSET Backends
    /\ default_provider \in Backends
    /\ enable_fallback \in BOOLEAN
    /\ fallback_order \in SeqsUpTo(Backends, MaxOrderLen)

InitCall ==
    /\ gpc = "idle"
    /\ preferred_provider = NoProvider
    /\ providers_to_try = <<>>
    /\ idx = 1
    /\ last_error = PyNone
    /\ attempts = <<>>
    /\ response = NoResponse

session_vars == <<conversations, conv_keys>>

chat_vars == <<chat, chat_response, cleanup_tasks, nreq>>

server_vars == <<session_vars, now, chat_vars, reaper>>

retrieval_vars == <<index, context_data>>

build_vars == <<llm_config, build>>

trace_vars == <<runs, messages>>

api_vars == <<lookup, switch_reply, stream, trace_vars>>

unit_vars == <<retrieval_vars, sdk_wait, build_vars, api_vars>>

aux_vars == <<history_reply, unit_vars>>

vars == <<factory_vars, call_vars, server_vars, aux_vars>>

(***************************************************************************)
(* vector_db: VectorStore.search and DocumentRetriever.retrieve_context    *)
(***************************************************************************)
\* results a search may return (the code asks for k = 4)
MaxResults == 2

\* doc.page_content[:200]
PreviewLen == 200

\* a text of n characters
Text(n, ch) == [j \in 1..n |-> ch]

Slice(text, n) == SubSeq(text, 1, IF Len(text) < n THEN Len(text) ELSE n)

Ellipsis == <<"...">>

PageContents == {Text(1, "a"), Text(PreviewLen - 1, "b"),
                 Text(PreviewLen, "c"), Text(PreviewLen + 1, "d")}

Metadatas == {[source |-> <<"faq.md">>, url |-> <<"https://pingus/faq">>],
              [source |-> PyNone, url |-> PyNone]}

Documents == [page_content : PageContents, metadata : Metadatas]

\* dict.get(key, default), an absent key being PyNone here
Get(value, default) == IF value = PyNone THEN default ELSE value

IndexStates ==
    {[kind |-> "results", docs |-> r] : r \in SeqsUpTo(Documents, MaxResults)}
    \cup {[kind |-> "search_raises", docs |-> <<>>],
          [kind |-> "init_raises", docs |-> <<>>]}

EmptyIndex == [kind |-> "results", docs |-> <<>>]

\* no call of retrieve_context has returned
NoContextData == [pending |-> TRUE]

NoInformation == [context |-> <<"No relevant information found.">>, sources |-> <<>>]

RetrievalError == [context |-> <<"Error retrieving information.">>, sources |-> <<>>]

\* the exception of VectorStore.__init__ leaving DocumentRetriever()
RetrieverRaised == [raised |-> <<"VectorStore.__init__">>]

\* VectorStore.search: the results, or [] when similarity_search raised
Search(ix) == IF ix.kind = "results" THEN ix.docs ELSE <<>>

\* faulty variant: the rank markers count from zero
ContextPart_ZeroBased(i, doc) == <<"[", ToString(i - 1), "] ">> \o doc.page_content

\* f"[{i}] {doc.page_content}"
ContextPart(i, doc) == <<"[", ToString(i), "] ">> \o doc.page_content

Source(doc) ==
    [title |-> Get(doc.metadata.source, <<"Unknown">>),
     url |-> Get(doc.metadata.url, <<"#">>),
     content |-> Slice(doc.page_content, PreviewLen) \o Ellipsis]

\* "\n\n".join(parts)
RECURSIVE Join(_)
Join(parts) ==
    IF parts = <<>> THEN <<>>
    ELSE IF Len(parts) = 1 THEN Head(parts)
    ELSE Head(parts) \o <<"\n\n">> \o Join(Tail(parts))

\* retrieve_context, lines 30-68; nothing in lines 31-61 raises for the
\* documents of the model, so the except branch is not taken
RetrieveContext(ix) ==
    LET results == Search(ix)
    IN  IF results = <<>> THEN NoInformation
        ELSE [context |-> Join([i \in 1..Len(results) |-> ContextPart(i, results[i])]),
              sources |-> [i \in 1..Len(results) |-> Source(results[i])]]

\* chat.py:84-85: retriever = DocumentRetriever(); retriever.retrieve_context(q)
Retrieve ==
    /\ context_data = NoContextData
    /\ context_data' = IF index.kind = "init_raises" THEN RetrieverRaised
                       ELSE RetrieveContext(index)
    /\ UNCHANGED <<factory_vars, call_vars, server_vars, history_reply, index, sdk_wait,
                   build_vars, api_vars>>

(***************************************************************************)
(* LLMFactory._initialize_providers                                        *)
(***************************************************************************)
\* entries of config.llm.providers in the configuration under test
MaxConfigured == 3

\* names a configuration may list, in file order; "mistral" has no class in
\* PROVIDERS
ConfigurableNames == <<"openai", "mistral", "claude", "gemini", "huggingface">>

ConfiguredNames == {ConfigurableNames[i] : i \in 1..MaxConfigured}

\* os.getenv(api_key_env): unset, set to the empty string, or a key
ApiKeys == {PyNone, <<>>, <<"sk-key">>}

\* a ProviderConfig with its environment: enabled, the credential the
\* environment holds, and whether provider_class(...) returns or raises
ProviderEntries == [enabled : BOOLEAN, api_key : ApiKeys, constructs : BOOLEAN]

LlmConfigs == UNION {[S -> ProviderEntries] : S \in SUBSET ConfiguredNames}

\* the keys of config.llm.providers in iteration order
ItemsOrder(cfg) == SelectSeq(ConfigurableNames, LAMBDA n : n \in DOMAIN cfg)

BuildDone == [pc |-> "done", todo |-> <<>>]

\* faulty variant: a disabled entry is not skipped
AdapterBuilt_KeepsDisabled(name, entry) ==
    IF Falsy(entry.api_key) THEN FALSE
    ELSE IF name \notin DOMAIN PROVIDERS THEN FALSE
    ELSE entry.constructs

\* the body of the loop, lines 34-63: TRUE when line 59 is reached
AdapterBuilt(name, entry) ==
    IF ~entry.enabled THEN FALSE
    ELSE IF Falsy(entry.api_key) THEN FALSE
    ELSE IF name \notin DOMAIN PROVIDERS THEN FALSE
    ELSE entry.constructs

\* one iteration of `for provider_name, provider_config in ...items()`
InitializeProvider ==
    /\ build.pc = "loop"
    /\ build.todo # <<>>
    /\ LET name == Head(build.todo)
       IN  providers' = IF AdapterBuilt(name, llm_config[name])
                        THEN providers \cup {name} ELSE providers
    /\ build' = [build EXCEPT !.todo = Tail(@)]
    /\ UNCHANGED <<default_provider, enable_fallback, fallback_order, llm_config>>
    /\ UNCHANGED <<call_vars, server_vars, history_reply, retrieval_vars, sdk_wait,
                   api_vars>>

\* the loop is over and LLMFactory() returns
InitializeReturn ==
    /\ build.pc = "loop"
    /\ build.todo = <<>>
    /\ build' = BuildDone
    /\ UNCHANGED <<factory_vars, llm_config>>
    /\ UNCHANGED <<call_vars, server_vars, history_reply, retrieval_vars, sdk_wait,
                   api_vars>>

\* the registry was built before the first request
InitBuilt ==
    /\ llm_config = <<>>
    /\ build = BuildDone

(***************************************************************************)
(* LLMFactory.get_provider and routers/config.py switch_provider           *)
(***************************************************************************)
\* the argument None of get_provider(name: Optional[str])
NoneName == "<None>"

\* the adapter object registered under a name
Adapter(name) == <<"adapter", name>>

\* self._providers.get(name)
ProvidersGet(name) == IF name \in providers THEN Adapter(name) ELSE PyNone

\* get_default_provider
GetDefaultProvider == ProvidersGet(default_provider)

\* faulty variant: a name that is not live is answered with the default
GetProvider_OrDefault(name) ==
    IF name = NoneName \/ name \notin providers THEN GetDefaultProvider
    ELSE ProvidersGet(name)

\* get_provider
GetProvider(name) ==
    IF name = NoneName THEN GetDefaultProvider ELSE ProvidersGet(name)

\* get_available_providers: list(self._providers.keys())
GetAvailableProviders == SelectSeq(ProviderNames, LAMBDA n : n \in providers)

\* names a caller may pass: every class name, one without a class, the
\* empty string and None
LookupNames == Range(ProviderNames) \cup {"mistral", "", NoneName}

NoLookup == [called |-> FALSE]

NoMessages == [built |-> FALSE]

NoSwitchReply == [status |-> 0]

SwitchRejected(name) ==
    [status |-> 400,
     detail |-> <<"Provider", name, "not available. Available:">>
                \o GetAvailableProviders]

SwitchDone(name) == [status |-> 200, success |-> TRUE, provider |-> name]

\* a caller asks the registry for an adapter
Lookup(name) ==
    /\ lookup' = [called |-> TRUE, name |-> name, result |-> GetProvider(name)]
    /\ UNCHANGED <<factory_vars, call_vars, server_vars, history_reply, retrieval_vars,
                   sdk_wait, build_vars, trace_vars, switch_reply, stream>>

\* faulty variant: the default is set before the name is checked
SwitchProvider_Unchecked(provider_name) ==
    /\ default_provider' = provider_name
    /\ switch_reply' = IF provider_name \notin Range(GetAvailableProviders)
                       THEN SwitchRejected(provider_name)
                       ELSE SwitchDone(provider_name)
    /\ UNCHANGED <<providers, enable_fallback, fallback_order>>
    /\ UNCHANGED <<call_vars, server_vars, history_reply, retrieval_vars,
                   sdk_wait, build_vars, trace_vars, lookup, stream>>

\* switch_provider
SwitchProvider(provider_name) ==
    /\ IF provider_name \notin Range(GetAvailableProviders)
       THEN /\ switch_reply' = SwitchRejected(provider_name)
            /\ UNCHANGED default_provider
       ELSE /\ default_provider' = provider_name
            /\ switch_reply' = SwitchDone(provider_name)
    /\ UNCHANGED <<providers, enable_fallback, fallback_order>>
    /\ UNCHANGED <<call_vars, server_vars, history_reply, retrieval_vars,
                   sdk_wait, build_vars, trace_vars, lookup, stream>>

\* no request is being streamed
IdleStream ==
    [pc |-> "idle", status |-> 0, session_id |-> <<>>, requested |-> NoProvider,
     provider |-> NoProvider, fragments |-> <<>>, events |-> <<>>,
     failed |-> FALSE, raised |-> FALSE]

InitApi ==
    /\ lookup = NoLookup
    /\ switch_reply = NoSwitchReply
    /\ stream = IdleStream
    /\ runs = <<>>
    /\ messages = NoMessages

(***************************************************************************)
(* routers/chat.py: sessions, the chat handler and cleanup_old_sessions    *)
(***************************************************************************)
MaxAge == 86400

SecondsPerDay == 86400

\* the clock readings the model distinguishes
TimePoints == {0, 1, MaxAge, MaxAge + 1}

\* datetime.isoformat(): a date part and a time-of-day part
IsoFormat(t) == [date |-> t \div SecondsPerDay, time |-> t % SecondsPerDay]

\* datetime.fromisoformat()
FromIsoFormat(iso) == iso.date * SecondsPerDay + iso.time

\* faulty variant: the age is measured from the last turn, not from creation
SessionAge_LastActivity(data, current_time) ==
    IF data.history = <<>>
    THEN current_time - FromIsoFormat(data.created_at)
    ELSE current_time - FromIsoFormat(data.history[Len(data.history)].timestamp)

\* (current_time - created_at).total_seconds()
SessionAge(data, current_time) == current_time - FromIsoFormat(data.created_at)

IsExpired(data, current_time) == SessionAge(data, current_time) > MaxAge

\* session ids a client may send, and the ids uuid4 yields for the requests
ClientSessionIds == {"s1"}

GeneratedSessionId(n) == <<"session_", n>>

NoSessionId == <<>>

SessionId(id) == <<id>>

ChatMessages == {<<"hello">>, <<" ">>, <<>>}

\* ChatMessageValidator: strip and collapse whitespace, reject what is empty
Strip(m) == SelectSeq(m, LAMBDA tok : tok # " ")

ValidMessage(m) == Len(m) >= 1 /\ Strip(m) # <<>>

\* DocumentRetriever(): the vector store opens, or its construction raises
Retrievals == {"ok", "init_raises"}

ChatRequests ==
    [message : ChatMessages,
     session_id : {SessionId(i) : i \in ClientSessionIds} \cup {NoSessionId},
     provider : {NoProvider, "claude"}]

NoChatResponse == [status |-> 0]

ServerError(detail) == [status |-> 500, detail |-> detail]

ChatResponse(llm_response, session_id) ==
    [status |-> 200,
     response |-> llm_response.content,
     session_id |-> session_id,
     success |-> llm_response.finish_reason # "error",
     provider_used |-> llm_response.provider]

NewSession(t) == [created_at |-> IsoFormat(t), history |-> <<>>, message_count |-> 0]

UserTurn(message, t) ==
    [role |-> "user", content |-> message, timestamp |-> IsoFormat(t)]

\* faulty variant: the reply is tagged with the default backend
AssistantTurn_DefaultTag(llm_response, t) ==
    [role |-> "assistant", content |-> llm_response.content,
     timestamp |-> IsoFormat(t), provider |-> default_provider]

AssistantTurn(llm_response, t) ==
    [role |-> "assistant", content |-> llm_response.content,
     timestamp |-> IsoFormat(t), provider |-> llm_response.provider]

Insert(convs, key, data) ==
    [k \in DOMAIN convs \cup {key} |-> IF k = key THEN data ELSE convs[k]]

Delete(convs, key) == [k \in DOMAIN convs \ {key} |-> convs[k]]

RemoveKey(keys, key) == SelectSeq(keys, LAMBDA k : k # key)

NoHistoryReply == [status |-> 0]

\* HTTPException(status_code=404, detail="Session not found")
NotFound == [status |-> 404, detail |-> <<"Session not found">>]

HistoryDeleted == [status |-> 200, message |-> <<"History deleted successfully">>]

\* return conversations[session_id]
HistoryFound(data) == [status |-> 200, body |-> data]

IdleChat == [pc |-> "idle", session_id |-> NoSessionId, message |-> <<>>,
             provider |-> NoProvider]

IdleReaper == [pc |-> "idle", current_time |-> 0, iter_size |-> 0,
               visited |-> {}, expired |-> <<>>, di |-> 1]

ResetCall ==
    /\ gpc' = "idle"
    /\ preferred_provider' = NoProvider
    /\ providers_to_try' = <<>>
    /\ idx' = 1
    /\ last_error' = PyNone
    /\ attempts' = <<>>
    /\ response' = NoResponse

\* faulty variant: the session is initialised anew on every reference
ChatBegin_Recreate(req, retrieval) ==
    /\ chat.pc = "idle"
    /\ nreq < MaxRequests
    /\ nreq' = nreq + 1
    /\ LET session_id == IF req.session_id # NoSessionId THEN req.session_id
                          ELSE GeneratedSessionId(nreq + 1)
           created == session_id \notin DOMAIN conversations
       IN  IF ~ValidMessage(req.message)
           THEN /\ chat_response' = ServerError("ValidationError")
                /\ UNCHANGED <<session_vars, chat, call_vars>>
           ELSE /\ conversations' = Insert(conversations, session_id, NewSession(now))
                /\ conv_keys' = IF created THEN Append(conv_keys, session_id)
                                ELSE conv_keys
                /\ IF retrieval = "init_raises"
                   THEN /\ chat_response' = ServerError("retriever")
                        /\ UNCHANGED <<chat, call_vars>>
                   ELSE /\ chat' = [pc |-> "generating", session_id |-> session_id,
                                    message |-> req.message, provider |-> req.provider]
                        /\ chat_response' = NoChatResponse
                        /\ CallStart(req.provider)
    /\ UNCHANGED <<factory_vars, now, cleanup_tasks, reaper, aux_vars>>

\* chat(), lines 60-115: validate, find or create the session, open the
\* retriever, build the messages and enter generate_with_fallback
ChatBegin(req, retrieval) ==
    /\ chat.pc = "idle"
    /\ nreq < MaxRequests
    /\ nreq' = nreq + 1
    /\ LET session_id == IF req.session_id # NoSessionId THEN req.session_id
                          ELSE GeneratedSessionId(nreq + 1)
           created == session_id \notin DOMAIN conversations
       IN  IF ~ValidMessage(req.message)
           THEN /\ chat_response' = ServerError("ValidationError")
                /\ UNCHANGED <<session_vars, chat, call_vars>>
           ELSE /\ conversations' = IF created
                                    THEN Insert(conversations, session_id, NewSession(now))
                                    ELSE conversations
                /\ conv_keys' = IF created THEN Append(conv_keys, session_id)
                                ELSE conv_keys
                /\ IF retrieval = "init_raises"
                   THEN /\ chat_response' = ServerError("retriever")
                        /\ UNCHANGED <<chat, call_vars>>
                   ELSE /\ chat' = [pc |-> "generating", session_id |-> session_id,
                                    message |-> req.message, provider |-> req.provider]
                        /\ chat_response' = NoChatResponse
                        /\ CallStart(req.provider)
    /\ UNCHANGED <<factory_vars, now, cleanup_tasks, reaper, aux_vars>>

\* chat(), lines 117-149: store the turns, schedule the cleanup, reply
ChatFinish ==
    /\ chat.pc = "generating"
    /\ gpc = "done"
    /\ IF chat.session_id \notin DOMAIN conversations
       THEN /\ chat_response' = ServerError("KeyError")
            /\ UNCHANGED <<session_vars, cleanup_tasks>>
       ELSE /\ conversations' =
                  [conversations EXCEPT ![chat.session_id] =
                      [@ EXCEPT !.history = @ \o <<UserTurn(chat.message, now),
                                                   AssistantTurn(response, now)>>,
                                !.message_count = @ + 1]]
            /\ UNCHANGED conv_keys
            /\ IF response.content = PyNone
               THEN /\ chat_response' = ServerError("ValidationError")
                    /\ UNCHANGED cleanup_tasks
               ELSE /\ chat_response' = ChatResponse(response, chat.session_id)
                    /\ cleanup_tasks' = cleanup_tasks + 1
    /\ chat' = IdleChat
    /\ ResetCall
    /\ UNCHANGED <<factory_vars, now, reaper, nreq, aux_vars>>

\* delete_history(), run on the event loop between two requests
DeleteHistory(session_id) ==
    /\ chat.pc = "idle"
    /\ IF session_id \notin DOMAIN conversations
       THEN /\ history_reply' = NotFound
            /\ UNCHANGED session_vars
       ELSE /\ conversations' = Delete(conversations, session_id)
            /\ conv_keys' = RemoveKey(conv_keys, session_id)
            /\ history_reply' = HistoryDeleted
    /\ UNCHANGED <<factory_vars, call_vars, now, chat_vars, reaper, unit_vars>>

\* get_history(), run on the event loop between two requests
GetHistory(session_id) ==
    /\ chat.pc = "idle"
    /\ history_reply' = IF session_id \notin DOMAIN conversations
                        THEN NotFound
                        ELSE HistoryFound(conversations[session_id])
    /\ UNCHANGED <<factory_vars, call_vars, session_vars, now, chat_vars, reaper,
                   unit_vars>>

\* time passes
Tick ==
    /\ \E t \in TimePoints : t > now /\ now' = t
    /\ UNCHANGED <<factory_vars, call_vars, session_vars, chat_vars, reaper, aux_vars>>

\* cleanup_old_sessions, lines 274-278: read the clock, start iterating
ReapBegin ==
    /\ reaper.pc = "idle"
    /\ cleanup_tasks > 0
    /\ cleanup_tasks' = cleanup_tasks - 1
    /\ reaper' = [pc |-> "scan", current_time |-> now, iter_size |-> Len(conv_keys),
                  visited |-> {}, expired |-> <<>>, di |-> 1]
    /\ UNCHANGED <<factory_vars, call_vars, session_vars, now, chat, chat_response, nreq,
                   aux_vars>>

\* lines 278-281: one step of the iteration over conversations.items(); the
\* dict iterator raises RuntimeError when the dict changed size
ReapScan ==
    /\ reaper.pc = "scan"
    /\ LET unvisited == SelectSeq(conv_keys, LAMBDA k : k \notin reaper.visited)
       IN  IF Len(conv_keys) # reaper.iter_size
           THEN reaper' = [reaper EXCEPT !.pc = "aborted"]
           ELSE IF unvisited = <<>>
           THEN reaper' = [reaper EXCEPT !.pc = "delete"]
           ELSE LET k == Head(unvisited)
                IN  reaper' = [reaper EXCEPT
                        !.visited = @ \cup {k},
                        !.expired = IF IsExpired(conversations[k], reaper.current_time)
                                    THEN Append(@, k) ELSE @]
    /\ UNCHANGED <<factory_vars, call_vars, session_vars, now, chat_vars, aux_vars>>

\* lines 283-284: del conversations[session_id] for the next expired id
ReapDelete ==
    /\ reaper.pc = "delete"
    /\ IF reaper.di > Len(reaper.expired)
       THEN /\ reaper' = [reaper EXCEPT !.pc = "finished"]
            /\ UNCHANGED session_vars
       ELSE LET k == reaper.expired[reaper.di]
            IN  IF k \notin DOMAIN conversations
                THEN /\ reaper' = [reaper EXCEPT !.pc = "aborted"]
                     /\ UNCHANGED session_vars
                ELSE /\ conversations' = Delete(conversations, k)
                     /\ conv_keys' = RemoveKey(conv_keys, k)
                     /\ reaper' = [reaper EXCEPT !.di = @ + 1]
    /\ UNCHANGED <<factory_vars, call_vars, now, chat_vars, aux_vars>>

\* lines 286-289: log and return
ReapEnd ==
    /\ reaper.pc \in {"finished", "aborted"}
    /\ reaper' = IdleReaper
    /\ UNCHANGED <<factory_vars, call_vars, session_vars, now, chat_vars, aux_vars>>

InitSessions ==
    /\ conversations = <<>>
    /\ conv_keys = <<>>
    /\ now = 0
    /\ chat = IdleChat
    /\ chat_response = NoChatResponse
    /\ cleanup_tasks = 0
    /\ reaper = IdleReaper
    /\ nreq = 0
    /\ history_reply = NoHistoryReply

InitServer ==
    /\ InitSessions
    /\ index = EmptyIndex
    /\ context_data = NoContextData
    /\ sdk_wait = IdleSdk(1)
    /\ InitBuilt
    /\ InitApi

Init == InitFactory /\ InitCall /\ InitServer

(***************************************************************************)
(* The adapters' stream_response and routers/chat.py chat_stream           *)
(***************************************************************************)
\* fragments a backend streams before the model ends the stream
MaxFragments == 2

StreamRequests ==
    [message : {<<"hello">>, <<>>},
     session_id : {SessionId(i) : i \in ClientSessionIds} \cup {NoSessionId},
     provider : {NoProvider, "claude"}]

\* a text fragment the backend `name` sent: chunk.choices[0].delta.content
Token(name, k) == [from |-> name, text |-> <<"tok", ToString(k)>>]

\* yield f"Error: {str(e)}" in the adapter's except branch
Diagnostic(name, e) == [from |-> name, text |-> <<"Error: ">> \o e]

\* f"data: {token}\n\n"
Data(text) == <<"data: ">> \o text \o <<"\n\n">>

NoProviderEvent == <<"data: Error: No provider available\n\n">>

DoneEvent == <<"data: [DONE]\n\n">>

\* faulty variant: the stream endpoint initialises the session as chat() does
StreamBegin_CreatesSession(req) ==
    /\ stream.pc = "idle"
    /\ stream' = IF ~ValidMessage(req.message)
                 THEN [IdleStream EXCEPT !.pc = "ended", !.status = 500,
                                         !.session_id = req.session_id]
                 ELSE [IdleStream EXCEPT !.pc = "open", !.status = 200,
                                         !.session_id = req.session_id,
                                         !.requested = req.provider]
    /\ LET created == req.session_id # NoSessionId
                      /\ req.session_id \notin DOMAIN conversations
       IN  /\ conversations' = IF created
                                THEN Insert(conversations, req.session_id, NewSession(now))
                                ELSE conversations
           /\ conv_keys' = IF created THEN Append(conv_keys, req.session_id)
                            ELSE conv_keys
    /\ UNCHANGED <<factory_vars, call_vars, now, chat_vars, reaper, history_reply,
                   retrieval_vars, sdk_wait, build_vars, trace_vars, lookup, switch_reply>>

\* chat_stream, lines 161-166 and 203-210: validate and hand generate() to
\* the StreamingResponse
StreamBegin(req) ==
    /\ stream.pc = "idle"
    /\ stream' = IF ~ValidMessage(req.message)
                 THEN [IdleStream EXCEPT !.pc = "ended", !.status = 500,
                                         !.session_id = req.session_id]
                 ELSE [IdleStream EXCEPT !.pc = "open", !.status = 200,
                                         !.session_id = req.session_id,
                                         !.requested = req.provider]
    /\ UNCHANGED <<factory_vars, call_vars, server_vars, history_reply, retrieval_vars,
                   sdk_wait, build_vars, trace_vars, lookup, switch_reply>>

\* generate(), lines 168-193: retrieve, build the messages, resolve the
\* adapter; the except branch of lines 199-201 when the retriever raises
StreamStart(retrieval) ==
    /\ stream.pc = "open"
    /\ LET provider == IF stream.requested # NoProvider
                       THEN GetProvider(stream.requested)
                       ELSE GetDefaultProvider
       IN  stream' =
             IF retrieval = "init_raises"
             THEN [stream EXCEPT !.pc = "ended", !.raised = TRUE,
                                 !.events = <<Data(<<"Error: ">> \o RetrieverRaised.raised)>>]
             ELSE IF provider = PyNone
             THEN [stream EXCEPT !.pc = "ended", !.events = <<NoProviderEvent>>]
             ELSE [stream EXCEPT !.pc = "streaming", !.provider = provider[2]]
    /\ UNCHANGED <<factory_vars, call_vars, server_vars, history_reply, retrieval_vars,
                   sdk_wait, build_vars, trace_vars, lookup, switch_reply>>

\* faulty variant: the adapter is looked up again for every fragment
StreamFragment_Resolving ==
    /\ stream.pc = "streaming"
    /\ Len(stream.fragments) < MaxFragments
    /\ default_provider \in providers
    /\ LET token == Token(default_provider, Len(stream.fragments) + 1)
       IN  stream' = [stream EXCEPT !.fragments = Append(@, token),
                                    !.events = Append(@, Data(token.text))]
    /\ UNCHANGED <<factory_vars, call_vars, server_vars, history_reply, retrieval_vars,
                   sdk_wait, build_vars, trace_vars, lookup, switch_reply>>

\* lines 195-197: the adapter yields the next fragment, generate() wraps it
StreamFragment ==
    /\ stream.pc = "streaming"
    /\ Len(stream.fragments) < MaxFragments
    /\ LET token == Token(stream.provider, Len(stream.fragments) + 1)
       IN  stream' = [stream EXCEPT !.fragments = Append(@, token),
                                    !.events = Append(@, Data(token.text))]
    /\ UNCHANGED <<factory_vars, call_vars, server_vars, history_reply, retrieval_vars,
                   sdk_wait, build_vars, trace_vars, lookup, switch_reply>>

\* faulty variant: the adapter lets the exception out, into generate()
StreamFail_Raising ==
    /\ stream.pc = "streaming"
    /\ \E e \in SdkFailures :
          stream' = [stream EXCEPT !.pc = "ended", !.failed = TRUE, !.raised = TRUE,
                                   !.events = Append(@, Data(<<"Error: ">> \o e))]
    /\ UNCHANGED <<factory_vars, call_vars, server_vars, history_reply, retrieval_vars,
                   sdk_wait, build_vars, trace_vars, lookup, switch_reply>>

\* the client call or the iteration over the backend's stream raises: the
\* adapter's except branch yields the diagnostic fragment
StreamFail ==
    /\ stream.pc = "streaming"
    /\ \E e \in SdkFailures :
          LET diagnostic == Diagnostic(stream.provider, e)
          IN  stream' = [stream EXCEPT !.pc = "failed", !.failed = TRUE,
                                       !.fragments = Append(@, diagnostic),
                                       !.events = Append(@, Data(diagnostic.text))]
    /\ UNCHANGED <<factory_vars, call_vars, server_vars, history_reply, retrieval_vars,
                   sdk_wait, build_vars, trace_vars, lookup, switch_reply>>

\* line 198: the adapter's generator is exhausted, after its last fragment
\* or after its diagnostic: yield "data: [DONE]\n\n"
StreamDone ==
    /\ stream.pc \in {"streaming", "failed"}
    /\ stream' = [stream EXCEPT !.pc = "ended", !.events = Append(@, DoneEvent)]
    /\ UNCHANGED <<factory_vars, call_vars, server_vars, history_reply, retrieval_vars,
                   sdk_wait, build_vars, trace_vars, lookup, switch_reply>>

\* the client has read the stream to its end
StreamClose ==
    /\ stream.pc = "ended"
    /\ stream' = IdleStream
    /\ UNCHANGED <<factory_vars, call_vars, server_vars, history_reply, retrieval_vars,
                   sdk_wait, build_vars, trace_vars, lookup, switch_reply>>

(***************************************************************************)
(* Spec: calls of generate_with_fallback under every configuration         *)
(***************************************************************************)
GenerateWithFallback ==
    /\ \E p \in Backends \cup {NoProvider} : CallStart(p)
    /\ UNCHANGED <<server_vars, aux_vars>>

Attempt == TryProvider /\ UNCHANGED <<server_vars, aux_vars>>

Exhausted == AllProvidersFailed /\ UNCHANGED <<server_vars, aux_vars>>

Return == CallReturn /\ UNCHANGED <<server_vars, aux_vars>>

Next ==
    \/ GenerateWithFallback
    \/ Attempt
    \/ Exhausted
    \/ Return

Spec == Init /\ [][Next]_vars

(***************************************************************************)
(* SpecServer: the chat endpoint on the event loop, delete_history, and    *)
(* the cleanup task in the thread pool, interleaved statement by statement *)
(***************************************************************************)
InitServerFactory ==
    /\ providers \in {{}, {"openai", "claude"}}
    /\ default_provider = "openai"
    /\ enable_fallback = TRUE
    /\ fallback_order = <<"openai", "claude">>

InitChatServer == InitServerFactory /\ InitCall /\ InitServer

Chat == \E req \in ChatRequests, retrieval \in Retrievals : ChatBegin(req, retrieval)

ChatAttempt == chat.pc = "generating" /\ TryProvider /\ UNCHANGED <<server_vars, aux_vars>>

ChatExhausted == chat.pc = "generating" /\ AllProvidersFailed /\ UNCHANGED <<server_vars, aux_vars>>

DeleteSession == \E s \in DOMAIN conversations : DeleteHistory(s)

HandlerNext ==
    \/ Chat
    \/ ChatAttempt
    \/ ChatExhausted
    \/ ChatFinish
    \/ DeleteSession
    \/ Tick

ReaperNext ==
    \/ ReapBegin
    \/ ReapScan
    \/ ReapDelete
    \/ ReapEnd

NextServer == HandlerNext \/ ReaperNext

SpecServer == InitChatServer /\ [][NextServer]_vars

(***************************************************************************)
(* SpecSweep: as SpecServer, but a cleanup sweep runs from start to end    *)
(* with no handler statement in between                                    *)
(***************************************************************************)
InitSweepFactory ==
    /\ providers = {"openai"}
    /\ default_provider = "openai"
    /\ enable_fallback = TRUE
    /\ fallback_order = <<"openai">>

InitSweep == InitSweepFactory /\ InitCall /\ InitServer

SweepRequests ==
    [message : {<<"hello">>},
     session_id : {SessionId(i) : i \in ClientSessionIds} \cup {NoSessionId},
     provider : {NoProvider}]

SweepChat == \E req \in SweepRequests : ChatBegin(req, "ok")

SweepHandlerNext ==
    \/ SweepChat
    \/ ChatAttempt
    \/ ChatExhausted
    \/ ChatFinish
    \/ DeleteSession
    \/ Tick

NextSweep ==
    \/ reaper.pc = "idle" /\ SweepHandlerNext
    \/ ReaperNext

SpecSweep == InitSweep /\ [][NextSweep]_vars


(***************************************************************************)
(* Properties of generate_with_fallback                                    *)
(***************************************************************************)
Tried == [i \in 1..Len(attempts) |-> attempts[i].name]

Succeeded(a) == ~a.raised /\ a.result.finish_reason # "error"

AllAttemptsFailed == \A i \in 1..Len(attempts) : ~Succeeded(attempts[i])

IsPrefix(s, t) == Len(s) <= Len(t) /\ SubSeq(t, 1, Len(s)) = s

RECURSIVE Dedup(_)
Dedup(s) ==
    IF s = <<>> THEN <<>>
    ELSE LET front == Dedup(SubSeq(s, 1, Len(s) - 1))
             last == s[Len(s)]
         IN  IF last \in Range(front) THEN front ELSE Append(front, last)

\* the candidate list as the design states it: the preferred backend if named
\* and live, then the fallback order without duplicates and dead backends
StatedCandidates ==
    LET pref == IF preferred_provider # NoProvider /\ preferred_provider \in providers
                THEN <<preferred_provider>> ELSE <<>>
        Live(n) == n \in providers /\ n \notin Range(pref)
    IN  pref \o Dedup(SelectSeq(fallback_order, Live))

C1_PrefixOfCandidates ==
    (gpc # "idle" /\ enable_fallback) => IsPrefix(Tried, StatedCandidates)

C1_Example ==
    (/\ gpc = "done"
     /\ enable_fallback
     /\ preferred_provider = "claude"
     /\ fallback_order = <<"openai", "claude", "gemini">>
     /\ {"openai", "claude", "gemini"} \subseteq providers
     /\ AllAttemptsFailed)
    => Tried = <<"claude", "openai", "gemini">>

C1_OneAtATime ==
    /\ Len(attempts') <= Len(attempts) + 1
    /\ Len(attempts') > Len(attempts) =>
          SubSeq(attempts', 1, Len(attempts)) = attempts

\* C1: with fallback enabled the backends on which generate is invoked during
\* one call are, in order and one per step, a prefix of the candidate list
\* (preferred if named and live, then the fallback order without duplicates
\* and dead backends); preferred B, order [A,B,C], all live and failing gives
\* the trial order [B, A, C].
C1_TrialOrder ==
    /\ [](C1_PrefixOfCandidates /\ C1_Example)
    /\ [][C1_OneAtATime]_vars

C1_Witness ==
    /\ gpc = "done"
    /\ enable_fallback
    /\ preferred_provider = "claude"
    /\ fallback_order = <<"openai", "claude", "gemini">>
    /\ Tried = <<"claude", "openai", "gemini">>
    /\ response.provider = "none"

\* C2: the call returns the result of the first candidate whose result is not
\* an error and invokes no candidate after it; with fallback enabled an error
\* is returned only after every candidate was invoked and failed.
C2_FirstSuccessWins ==
    gpc = "done" =>
        /\ \A i \in 1..Len(attempts) :
              Succeeded(attempts[i]) =>
                  i = Len(attempts) /\ response = attempts[i].result
        /\ (enable_fallback /\ response.finish_reason = "error") =>
              Tried = StatedCandidates /\ AllAttemptsFailed

C2_Witness ==
    /\ gpc = "done"
    /\ enable_fallback
    /\ Len(attempts) = 3
    /\ attempts[1].raised
    /\ attempts[2].sdk.kind = "raises"
    /\ Succeeded(attempts[3])
    /\ response.finish_reason = "stop"

\* C3: with fallback disabled exactly one backend is tried: the preferred one
\* if named, otherwise the configured default (stated for a live backend).
C3_OneBackendWithoutFallback ==
    LET b == IF preferred_provider # NoProvider THEN preferred_provider
             ELSE default_provider
    IN  (gpc = "done" /\ ~enable_fallback /\ b \in providers) => Tried = <<b>>

LastRecordedError ==
    IF attempts = <<>> THEN PyNone
    ELSE LET a == attempts[Len(attempts)]
         IN  IF a.raised THEN a.exc ELSE a.result.error

\* C4: if the candidate list is empty or every candidate failed, the result
\* has backend id "none", finish_reason error and the error text
\* "All providers failed. Last error: <last>", <last> being the error of the
\* last candidate tried (its error field or the text of what it raised).
C4_AllFailedResult ==
    (gpc = "done" /\ AllAttemptsFailed) =>
        /\ response.provider = "none"
        /\ response.finish_reason = "error"
        /\ response.error =
              <<"All providers failed. Last error:">> \o Str(LastRecordedError)

C4_Witness ==
    /\ gpc = "done"
    /\ Len(attempts) = 2
    /\ attempts[1].raised
    /\ attempts[2].sdk.kind = "raises"
    /\ response.error = <<"All providers failed. Last error:",
                          "generate_response", "failed:", "timeout">>

\* C5: every response carries the id of the backend whose generate call
\* produced it; the returned one carries "none" exactly when every candidate
\* failed, and never a blank id or the id of a candidate tried earlier.
C5_BackendIdOfProducer ==
    /\ \A i \in 1..Len(attempts) :
          ~attempts[i].raised => attempts[i].result.provider = attempts[i].name
    /\ gpc = "done" =>
          /\ response.provider = "none" <=> AllAttemptsFailed
          /\ ~AllAttemptsFailed =>
                response.provider = attempts[Len(attempts)].name
          /\ response.provider \notin {NoProvider, "-", "<other>"}
          /\ \A i \in 1..(Len(attempts) - 1) :
                response.provider # attempts[i].name

C5_Witness ==
    /\ gpc = "done"
    /\ Len(attempts) = 2
    /\ attempts[1].name = "openai"
    /\ attempts[1].sdk.kind = "raises"
    /\ response.provider = "claude"

\* C6: the call never raises and always returns a result with non-empty
\* content and non-empty backend id.
C6_NonEmptyResult ==
    gpc = "done" =>
        /\ ~Falsy(response.content)
        /\ response.provider # NoProvider

\* C7: whenever the backend's client call fails, the adapter returns (it does
\* not raise) a response with finish_reason error, a diagnostic error text,
\* the generic apology as content and its own backend id.
C7_AdapterConvertsFailure ==
    \A i \in 1..Len(attempts) :
        attempts[i].sdk.kind = "raises" =>
            /\ ~attempts[i].raised
            /\ attempts[i].result.finish_reason = "error"
            /\ attempts[i].result.error =
                  <<"generate_response", "failed:">> \o attempts[i].sdk.error
            /\ attempts[i].result.content = AdapterApology
            /\ attempts[i].result.provider = attempts[i].name

C7_Witness ==
    /\ Len(attempts) = 1
    /\ attempts[1].name = "openai"
    /\ attempts[1].sdk.kind = "raises"
    /\ attempts[1].sdk.error = <<"auth">>
    /\ attempts[1].result.provider = "openai"

(***************************************************************************)
(* Properties of the chat endpoint and of the session registry             *)
(***************************************************************************)
ChatFinishes == chat.pc = "generating" /\ chat'.pc = "idle"

C8_Reply ==
    ChatFinishes =>
        /\ chat_response'.status = 200
        /\ chat_response'.success = (response.finish_reason # "error")
        /\ AllAttemptsFailed =>
              /\ chat_response'.success = FALSE
              /\ chat_response'.provider_used = "none"
              /\ chat_response'.response = FallbackApology

\* C8: a chat request always yields a well-formed response whose success flag
\* is true exactly when the generation result is not an error; when every
\* backend failed it is a normal response with success false, backend "none"
\* and the apology text.
C8_ChatAlwaysAnswers == [][C8_Reply]_vars

\* C9: whatever a cleanup sweep or a delete does meanwhile, the session a
\* chat request found or created still exists when the request appends its
\* turns, and the request never fails on a missing session.
C9_SessionSurvivesRequest ==
    /\ chat.pc = "generating" => chat.session_id \in DOMAIN conversations
    /\ chat_response.status = 500 => chat_response.detail # "KeyError"

CreatedAt(s) == FromIsoFormat(conversations[s].created_at)

C10_ExpiredAbsent ==
    reaper.pc = "finished" =>
        \A s \in DOMAIN conversations :
            ~(reaper.current_time > CreatedAt(s) + MaxAge)

C10_YoungKept ==
    LET sweep_time == IF reaper.pc = "idle" THEN now ELSE reaper.current_time
    IN  reaper' # reaper =>
            \A s \in DOMAIN conversations :
                sweep_time < CreatedAt(s) + MaxAge =>
                    /\ s \in DOMAIN conversations'
                    /\ conversations'[s] = conversations[s]

SpecReaping ==
    /\ InitSweep
    /\ [][NextSweep]_vars
    /\ WF_vars(ReaperNext)
    /\ WF_vars(reaper.pc = "idle" /\ (ChatAttempt \/ ChatExhausted \/ ChatFinish))
    /\ WF_vars(reaper.pc = "idle" /\ Tick)

AllSessionIds ==
    {SessionId(i) : i \in ClientSessionIds} \cup
    {GeneratedSessionId(n) : n \in 1..MaxRequests}

Stored(s) == s \in DOMAIN conversations

Overdue(s) == Stored(s) /\ IsExpired(conversations[s], now)

\* C11: reaping needs no chat request: a session whose age exceeds the
\* maximum age is eventually removed from the registry, whether or not a
\* further chat request arrives after it expired
C11_ExpiredEventuallyReaped ==
    \A s \in AllSessionIds : Overdue(s) ~> ~Stored(s)


(***************************************************************************)
(* SpecHistory: chat requests and the two /history endpoints, called with  *)
(* ids that are and ids that are not in the registry                       *)
(***************************************************************************)
DeleteAny == \E s \in AllSessionIds : DeleteHistory(s)

ReadAny == \E s \in AllSessionIds : GetHistory(s)

NextHistory ==
    \/ Chat
    \/ ChatAttempt
    \/ ChatExhausted
    \/ ChatFinish
    \/ DeleteAny
    \/ ReadAny

SpecHistory == InitSweep /\ [][NextHistory]_vars

\* C12: delete is idempotent: deleting a stored id removes it, deleting an id
\* that is not stored (a second delete included) is not an error and leaves
\* the registry as it was; reading the history of an id that is not stored
\* is a not-found error
C12_DeleteIdempotent ==
    [][\A s \in AllSessionIds :
         /\ DeleteHistory(s) =>
                /\ ~Stored(s)'
                /\ history_reply'.status = 200
                /\ ~Stored(s) => conversations' = conversations
         /\ (GetHistory(s) /\ ~Stored(s)) => history_reply'.status = 404]_vars


EmptySessionAt(t) == [created_at |-> IsoFormat(t), history |-> <<>>, message_count |-> 0]

C14_CountEqualsTurns ==
    \A s \in DOMAIN conversations :
        conversations[s].message_count = Len(conversations[s].history)

ApologyStored ==
    \E s \in DOMAIN conversations :
        \E i \in 1..Len(conversations[s].history) :
            /\ conversations[s].history[i].role = "assistant"
            /\ conversations[s].history[i].content \in
                   {FallbackApology} \cup {AdapterApology}

\* C15: an exchange whose generation result has finish_reason = error,
\* exhaustion of all backends included, leaves the stored sessions as they
\* were: no turn is appended, the count is unchanged, and an apology is
\* never stored as an assistant turn
C15_FailedExchangeStoresNothing ==
    [][(ChatFinishes /\ response.finish_reason = "error") =>
           /\ conversations' = conversations
           /\ ~ApologyStored']_vars


(***************************************************************************)
(* SpecRetrieve: one retrieval against every state of the index            *)
(***************************************************************************)
InitRetrieve ==
    /\ InitSweepFactory /\ InitCall /\ InitSessions
    /\ index \in IndexStates
    /\ context_data = NoContextData
    /\ sdk_wait = IdleSdk(1)
    /\ InitBuilt
    /\ InitApi

NextRetrieve == Retrieve

SpecRetrieve == InitRetrieve /\ [][NextRetrieve]_vars


Retrieved == context_data # NoContextData

\* C16: when the index fails, on construction or on a query, retrieval gives
\* the error sentinel as context with no sources, and the chat request goes
\* on to generation: the failure never leaves as an exception
C16_IndexFailureGivesErrorSentinel ==
    (index.kind # "results" /\ Retrieved) =>
        context_data = [context |-> <<"Error retrieving information.">>,
                        sources |-> <<>>]

\* where the i-th part starts in a context built from docs: each part is a
\* three-token marker and the passage, parts are one separator apart
RECURSIVE PartStart(_, _)
PartStart(docs, i) ==
    IF i = 1 THEN 0
    ELSE PartStart(docs, i - 1) + 3 + Len(docs[i - 1].page_content) + 1

\* C17: retrieval returns a context and sources, never absent: for no
\* results the sentinel "No relevant information found." and no sources;
\* otherwise the passages in index order, the i-th behind the rank marker
\* [i] counted from 1, a blank line between them, and one source per
\* passage in the same order
C17_ContextAndSources ==
    (index.kind = "results" /\ Retrieved) =>
        LET docs == index.docs
            n == Len(docs)
            ctx == context_data.context
            srcs == context_data.sources
        IN  /\ DOMAIN context_data = {"context", "sources"}
            /\ IF n = 0
               THEN /\ ctx = <<"No relevant information found.">>
                    /\ srcs = <<>>
               ELSE /\ Len(srcs) = n
                    /\ Len(ctx) = PartStart(docs, n) + 3 + Len(docs[n].page_content)
                    /\ \A i \in 1..n :
                         LET a == PartStart(docs, i)
                             text == docs[i].page_content
                         IN  /\ SubSeq(ctx, a + 1, a + 3) = <<"[", ToString(i), "] ">>
                             /\ SubSeq(ctx, a + 4, a + 3 + Len(text)) = text
                             /\ i < n => ctx[a + 3 + Len(text) + 1] = "\n\n"
                             /\ srcs[i].title = Get(docs[i].metadata.source, <<"Unknown">>)
                             /\ srcs[i].url = Get(docs[i].metadata.url, <<"#">>)
                             /\ IsPrefix(Slice(text, PreviewLen), srcs[i].content)

\* two different passages were retrieved
C17_Witness ==
    /\ index.kind = "results" /\ Retrieved
    /\ Len(index.docs) >= 2
    /\ index.docs[1].page_content # index.docs[2].page_content

\* C18: the excerpt of a source is the passage cut to 200 characters, with an
\* ellipsis appended when and only when something was cut: a passage of at
\* most 200 characters is its own excerpt
C18_EllipsisOnlyWhenTruncated ==
    (index.kind = "results" /\ Retrieved) =>
        \A i \in 1..Len(index.docs) :
            LET text == index.docs[i].page_content
            IN  context_data.sources[i].content =
                    IF Len(text) > PreviewLen
                    THEN SubSeq(text, 1, PreviewLen) \o <<"...">>
                    ELSE text


(***************************************************************************)
(* SpecTimeout: generate_with_fallback with the time a client call takes   *)
(***************************************************************************)
\* generate_response enters self.client...create(...)
SdkCall ==
    /\ gpc = "loop"
    /\ idx <= Len(providers_to_try)
    /\ ~sdk_wait.waiting
    /\ sdk_wait' = [sdk_wait EXCEPT !.waiting = TRUE, !.elapsed = 0]
    /\ UNCHANGED <<factory_vars, call_vars, server_vars, history_reply, retrieval_vars,
                   build_vars, api_vars>>

\* the backend has not answered yet; nothing in the adapter reads self.timeout
SdkWait ==
    /\ sdk_wait.waiting
    /\ sdk_wait.elapsed < WaitLimit
    /\ sdk_wait' = [sdk_wait EXCEPT !.elapsed = @ + 1]
    /\ UNCHANGED <<factory_vars, call_vars, server_vars, history_reply, retrieval_vars,
                   build_vars, api_vars>>

\* the client call returns or raises, and the loop iteration completes
SdkAnswer ==
    /\ sdk_wait.waiting
    /\ TryProvider
    /\ sdk_wait' = [sdk_wait EXCEPT !.waiting = FALSE, !.elapsed = 0]
    /\ UNCHANGED <<server_vars, history_reply, retrieval_vars, build_vars, api_vars>>

InitTimeout ==
    /\ InitServerFactory /\ InitCall /\ InitSessions
    /\ index = EmptyIndex
    /\ context_data = NoContextData
    /\ \E t \in 1..MaxTimeout : sdk_wait = IdleSdk(t)
    /\ InitBuilt
    /\ InitApi

NextTimeout ==
    \/ GenerateWithFallback
    \/ SdkCall
    \/ SdkWait
    \/ SdkAnswer
    \/ Exhausted
    \/ Return

SpecTimeout == InitTimeout /\ [][NextTimeout]_vars

\* C19: a generation call does not hang: a backend that has not answered
\* within the configured timeout_seconds makes the adapter's generate end
\* with an error result, so no call is still waiting after its timeout
C19_NoWaitBeyondTimeout ==
    sdk_wait.waiting => sdk_wait.elapsed <= sdk_wait.timeout


(***************************************************************************)
(* SpecBuild: LLMFactory() over every configuration and environment        *)
(***************************************************************************)
InitBuild ==
    /\ providers = {}
    /\ default_provider = "openai"
    /\ enable_fallback = TRUE
    /\ fallback_order = <<>>
    /\ InitCall /\ InitSessions
    /\ index = EmptyIndex
    /\ context_data = NoContextData
    /\ sdk_wait = IdleSdk(1)
    /\ llm_config \in LlmConfigs
    /\ build = [pc |-> "loop", todo |-> ItemsOrder(llm_config)]
    /\ InitApi

NextBuild ==
    \/ InitializeProvider
    \/ InitializeReturn

SpecBuild == InitBuild /\ [][NextBuild]_vars

\* routers/health.py readiness_check
Ready == providers # {}

\* C20: building the registry never fails, and when it is built the live
\* adapters are exactly the configured backends that are enabled, have a
\* credential, are of a known kind and were constructed; all others are
\* skipped, and no live adapter at all is a valid outcome
C20_LiveAdapters ==
    /\ build.pc \in {"loop", "done"}
    /\ build.pc = "loop" => ENABLED NextBuild
    /\ build.pc = "done" =>
          providers = {n \in DOMAIN llm_config :
                          /\ llm_config[n].enabled
                          /\ llm_config[n].api_key \notin {PyNone, <<>>}
                          /\ n \in {"openai", "claude", "gemini", "huggingface"}
                          /\ llm_config[n].constructs}

\* the registry is built with an adapter live beside a disabled entry and an
\* enabled entry that were skipped, or with no adapter at all although an
\* enabled entry was configured
C20_Witness ==
    /\ build.pc = "done"
    /\ \/ /\ providers # {}
          /\ \E n \in DOMAIN llm_config \ providers : ~llm_config[n].enabled
          /\ \E n \in DOMAIN llm_config \ providers : llm_config[n].enabled
       \/ /\ ~Ready
          /\ \E n \in DOMAIN llm_config :
                llm_config[n].enabled /\ ~llm_config[n].constructs


(***************************************************************************)
(* SpecRegistry: lookups and switch-default requests on a built registry   *)
(***************************************************************************)
\* the configuration a registry with the live set `live` was built from
ConfigOf(live) ==
    [n \in Backends |-> [enabled |-> n \in live, api_key |-> <<"sk-key">>,
                         constructs |-> TRUE]]

InitRegistry ==
    /\ providers \in SUBSET Backends
    /\ default_provider \in Backends \cup {"mistral"}
    /\ enable_fallback = TRUE
    /\ fallback_order = <<>>
    /\ InitCall /\ InitSessions
    /\ index = EmptyIndex
    /\ context_data = NoContextData
    /\ sdk_wait = IdleSdk(1)
    /\ llm_config = ConfigOf(providers)
    /\ build = BuildDone
    /\ InitApi

LookupAny == \E name \in LookupNames : Lookup(name)

SwitchAny == \E name \in LookupNames \ {NoneName} : SwitchProvider(name)

NextRegistry ==
    \/ LookupAny
    \/ SwitchAny

SpecRegistry == InitRegistry /\ [][NextRegistry]_vars

\* C21: a lookup never fails: with no name it gives the adapter of the
\* current default backend, or nothing when the default is not live; with a
\* name that is unknown or not live it gives nothing; and it gives an
\* adapter for every name that list_available names
C21_LookupNeverFails ==
    [][\A name \in LookupNames :
          Lookup(name) =>
             /\ lookup'.called /\ lookup'.name = name
             /\ name = NoneName =>
                   lookup'.result = IF default_provider \in providers
                                    THEN <<"adapter", default_provider>>
                                    ELSE PyNone
             /\ (name # NoneName /\ name \notin providers) => lookup'.result = PyNone
             /\ (\E i \in 1..Len(GetAvailableProviders) :
                     GetAvailableProviders[i] = name) =>
                   lookup'.result = <<"adapter", name>>]_vars

\* a lookup with no name while the default backend is not live, and one of
\* a name that is not live
C21_Witness ==
    /\ lookup.called
    /\ lookup.result = PyNone
    /\ \/ lookup.name = NoneName /\ default_provider \notin providers
       \/ lookup.name \in Backends \ providers
    /\ providers # {}


\* C22: a switch-default request that names a live backend changes the
\* default pointer and nothing else: the live adapters and every backend's
\* configuration stay as they were; one that names a backend that is not
\* live is rejected with status 400 and leaves the default as it was; so
\* the default only ever moves to a live backend
C22_SwitchOnlyMovesDefault ==
    [][/\ \A name \in LookupNames \ {NoneName} :
             SwitchProvider(name) =>
                /\ providers' = providers
                /\ llm_config' = llm_config
                /\ <<enable_fallback, fallback_order>>' = <<enable_fallback, fallback_order>>
                /\ IF name \in providers
                   THEN default_provider' = name /\ switch_reply'.status = 200
                   ELSE default_provider' = default_provider /\ switch_reply'.status = 400
       /\ default_provider' = default_provider \/ default_provider' \in providers']_vars

\* a switch was accepted in a registry that also has a backend that is not
\* live, and a lookup with no name then gave the new default's adapter
C22_Witness ==
    /\ switch_reply.status = 200
    /\ switch_reply.provider = default_provider
    /\ Backends \ providers # {}
    /\ lookup.called /\ lookup.name = NoneName
    /\ lookup.result = <<"adapter", default_provider>>


(***************************************************************************)
(* SpecStream: streaming requests against a registry that holds a session, *)
(* with switch-default requests between the events of a stream             *)
(***************************************************************************)
\* a session as one completed exchange leaves it
UsedSession ==
    [created_at |-> IsoFormat(0),
     history |-> <<UserTurn(<<"hello">>, 0),
                   AssistantTurn(LLMResponse(<<"answer">>, "model-openai", "openai",
                                             "stop", PyNone), 0)>>,
     message_count |-> 1]

InitStream ==
    /\ InitServerFactory /\ InitCall
    /\ \/ conversations = <<>> /\ conv_keys = <<>>
       \/ /\ conversations = Insert(<<>>, SessionId("s1"), UsedSession)
          /\ conv_keys = <<SessionId("s1")>>
    /\ now = 0
    /\ chat = IdleChat
    /\ chat_response = NoChatResponse
    /\ cleanup_tasks = 0
    /\ reaper = IdleReaper
    /\ nreq = 0
    /\ history_reply = NoHistoryReply
    /\ index = EmptyIndex
    /\ context_data = NoContextData
    /\ sdk_wait = IdleSdk(1)
    /\ InitBuilt
    /\ InitApi

StreamOpen == \E req \in StreamRequests : StreamBegin(req)

StreamGenerate == \E retrieval \in Retrievals : StreamStart(retrieval)

SwitchLive == \E name \in Backends : SwitchProvider(name)

NextStream ==
    \/ StreamOpen
    \/ StreamGenerate
    \/ StreamFragment
    \/ StreamFail
    \/ StreamDone
    \/ StreamClose
    \/ SwitchLive

SpecStream == InitStream /\ [][NextStream]_vars


IsDiagnostic(fragment) == fragment.text[1] = "Error: "

\* C23: when a backend fails while streaming, the consumer gets the
\* fragments produced before the failure, then exactly one diagnostic
\* fragment, and then the sequence ends; nothing is raised into the
\* consumer's iteration
C23_DiagnosticEndsStream ==
    stream.failed =>
        LET n == Len(stream.fragments)
        IN  /\ stream.pc \in {"failed", "ended"}
            /\ ~stream.raised
            /\ n >= 1
            /\ IsDiagnostic(stream.fragments[n])
            /\ \A i \in 1..(n - 1) :
                  stream.fragments[i].text = <<"tok", ToString(i)>>
            /\ Len(stream.events) = IF stream.pc = "ended" THEN n + 1 ELSE n
            /\ \A i \in 1..n :
                  stream.events[i] = <<"data: ">> \o stream.fragments[i].text \o <<"\n\n">>
            /\ stream.pc = "ended" => stream.events[n + 1] = <<"data: [DONE]\n\n">>

\* a stream failed after a fragment and was read to its end
C23_Witness ==
    /\ stream.failed
    /\ stream.pc = "ended"
    /\ Len(stream.fragments) >= 2

\* C29: a streaming request uses one backend, resolved once when the stream
\* starts: the requested one if one is named, else the current default.
\* It never falls back: if that backend is not live the stream is a single
\* error event without completion marker; otherwise every fragment comes
\* from that backend, also when the default is switched during the stream
C29_OneBackendPerStream ==
    [][/\ (stream.pc = "open" /\ stream'.pc # "open" /\ ~stream'.raised) =>
             LET wanted == IF stream.requested # NoProvider THEN stream.requested
                           ELSE default_provider
             IN  IF wanted \in providers
                 THEN stream'.pc = "streaming" /\ stream'.provider = wanted
                 ELSE /\ stream'.pc = "ended"
                      /\ stream'.events = <<<<"data: Error: No provider available\n\n">>>>
       /\ stream.pc \in {"streaming", "failed"} =>
             /\ stream'.pc # "idle" => stream'.provider = stream.provider
             /\ \A i \in 1..Len(stream'.fragments) :
                   stream'.fragments[i].from = stream.provider]_vars

\* a stream that named no backend is delivering fragments of the backend
\* that was the default when it started, and the default is another one now
C29_Witness ==
    /\ stream.pc = "streaming"
    /\ stream.requested = NoProvider
    /\ stream.fragments # <<>>
    /\ default_provider # stream.provider

\* C30: a streaming request leaves the session registry as it was, whatever
\* its outcome: it creates no session, appends no turn, changes no message
\* count and schedules no sweep
C30_StreamLeavesRegistry ==
    [][stream' # stream =>
          /\ conversations' = conversations
          /\ conv_keys' = conv_keys
          /\ cleanup_tasks' = cleanup_tasks
          /\ reaper' = reaper]_vars

\* a stream that named session s1 ran to its completion marker and s1 is
\* not stored
C30_Witness ==
    /\ stream.pc = "ended"
    /\ stream.session_id = SessionId("s1")
    /\ stream.events # <<>>
    /\ stream.events[Len(stream.events)] = DoneEvent
    /\ ~Stored(SessionId("s1"))


\* C24: a chat request whose message is empty or only whitespace is
\* rejected with the validation status 422, and the rejection creates no
\* session, appends no turn and invokes no backend
C24_EmptyMessageRejected ==
    [][\A req \in ChatRequests, retrieval \in Retrievals :
          (ChatBegin(req, retrieval) /\ ~ValidMessage(req.message)) =>
             /\ chat_response'.status = 422
             /\ conversations' = conversations
             /\ gpc' = "idle" /\ attempts' = <<>>]_vars


\* C25: a completed exchange appends exactly two turns at the end of its
\* session, the user's query and right after it the assistant's reply
\* tagged with the backend id of the returned result, and adds one to the
\* message count; so the turns of successive exchanges are stored in the
\* order the requests arrived and are never interleaved
C25_TwoTurnsPerExchange ==
    [][(ChatFinishes /\ Stored(chat.session_id)) =>
          LET old == conversations[chat.session_id]
              new == conversations'[chat.session_id]
              n == Len(old.history)
          IN  /\ DOMAIN conversations' = DOMAIN conversations
              /\ \A s \in DOMAIN conversations \ {chat.session_id} :
                    conversations'[s] = conversations[s]
              /\ Len(new.history) = n + 2
              /\ SubSeq(new.history, 1, n) = old.history
              /\ new.history[n + 1].role = "user"
              /\ new.history[n + 1].content = chat.message
              /\ new.history[n + 2].role = "assistant"
              /\ new.history[n + 2].content = response.content
              /\ new.history[n + 2].provider = response.provider
              /\ new.message_count = old.message_count + 1
              /\ new.created_at = old.created_at]_vars

\* a session holds the turns of two exchanges, the second one answered by
\* no backend
C25_Witness ==
    \E s \in DOMAIN conversations :
        /\ Len(conversations[s].history) = 4
        /\ conversations[s].message_count = 2
        /\ conversations[s].history[2].provider = "openai"
        /\ conversations[s].history[4].provider = "none"


\* C26: a cleanup sweep that runs while handlers insert or delete sessions
\* still completes: it never stops part-way, and when it has finished no
\* session that was expired at the sweep's clock reading remains
C26_SweepCompletes ==
    /\ reaper.pc # "aborted"
    /\ reaper.pc = "finished" =>
          \A s \in DOMAIN conversations :
              ~(reaper.current_time > CreatedAt(s) + MaxAge)



(***************************************************************************)
(* SpecSwitched: two calls of generate_with_fallback with the same         *)
(* arguments on one registry, against backends that behave the same in     *)
(* both, and switch-default requests between them                          *)
(***************************************************************************)
\* config.llm.fallback_order: every backend, in the order of the class registry
ConfiguredOrder == [i \in 1..NumBackends |-> ProviderNames[i]]

InitSwitched ==
    /\ providers \in SUBSET Backends
    /\ default_provider \in Backends
    /\ enable_fallback \in BOOLEAN
    /\ fallback_order = ConfiguredOrder
    /\ InitCall /\ InitServer /\ InitApi

\* what the backend `name` did in an earlier call, if it was tried there
Behaved(name) ==
    {a \in UNION {Range(runs[r].attempts) : r \in DOMAIN runs} : a.name = name}

\* chat.py, lines 110-115: a call; the second one repeats the first one's
\* preferred backend
SwitchedCall ==
    /\ Len(runs) <= 1
    /\ \E p \in Backends \cup {NoProvider} :
          /\ runs # <<>> => p = runs[1].preferred
          /\ CallStart(p)
          /\ runs' = Append(runs, [default |-> default_provider, preferred |-> p,
                                   order |-> providers_to_try', attempts |-> <<>>,
                                   response |-> NoResponse, done |-> FALSE])
    /\ UNCHANGED <<server_vars, history_reply, retrieval_vars, sdk_wait, build_vars,
                   lookup, switch_reply, stream, messages>>

\* a backend tried again behaves as it did before
SwitchedAttempt ==
    /\ Attempt
    /\ LET a == attempts'[Len(attempts')]
       IN  Behaved(a.name) \subseteq {a}

\* the call returns; its candidates, attempts and result are kept
SwitchedReturn ==
    /\ CallReturn
    /\ runs' = [runs EXCEPT ![Len(runs)] =
                   [@ EXCEPT !.attempts = attempts, !.response = response,
                             !.done = TRUE]]
    /\ UNCHANGED <<server_vars, history_reply, retrieval_vars, sdk_wait, build_vars,
                   lookup, switch_reply, stream, messages>>

\* a switch-default request between the two calls
SwitchBetween == gpc = "idle" /\ Len(runs) = 1 /\ SwitchLive

NextSwitched ==
    \/ SwitchedCall
    \/ SwitchedAttempt
    \/ Exhausted
    \/ SwitchedReturn
    \/ SwitchBetween

SpecSwitched == InitSwitched /\ [][NextSwitched]_vars

TriedIn(run) == [i \in DOMAIN run.attempts |-> run.attempts[i].name]

\* C27: two calls of generate_with_fallback with the same preferred backend,
\* fallback settings, live set and backend behaviours try the same backends
\* in the same order and return the same result, whatever the default
\* backend was during each of them
C27_DefaultIrrelevant ==
    \A i, j \in DOMAIN runs :
        (runs[i].done /\ runs[j].done /\ runs[i].preferred = runs[j].preferred) =>
            /\ runs[i].order = runs[j].order
            /\ TriedIn(runs[i]) = TriedIn(runs[j])
            /\ runs[i].response = runs[j].response

\* two calls without a preferred backend, made under different defaults,
\* both fell back to a second backend, which answered
C27_Witness ==
    /\ Len(runs) = 2
    /\ runs[1].done /\ runs[2].done
    /\ runs[1].default # runs[2].default
    /\ runs[1].preferred = NoProvider
    /\ Len(runs[2].attempts) = 2
    /\ runs[2].response.finish_reason = "stop"



(***************************************************************************)
(* SpecMessages: the messages chat() builds for generate_with_fallback,    *)
(* over every request history, retrieved context and stored session        *)
(***************************************************************************)
MaxHistory == 7

\* request.conversation_history[-6:]
HistoryWindow == 6

\* base.py, Message
Message(role, content) == [role |-> role, content |-> content]

\* Python's seq[-n:]
LastN(seq, n) ==
    IF Len(seq) <= n THEN seq ELSE SubSeq(seq, Len(seq) - n + 1, Len(seq))

\* the f-string of lines 96-103
UserPrompt(context, message) ==
    <<"Context information:\n">> \o context
    \o <<"\n\nBased on the above context, please answer the following question:\n\nQuestion: ">>
    \o message \o <<"\n\nAnswer:">>

\* faulty variant: the earlier turns are taken from the stored session
BuildMessages_FromStored(request, retrieved) ==
    LET past == IF request.session_id \in DOMAIN conversations
                THEN LastN(conversations[request.session_id].history, HistoryWindow)
                ELSE LastN(request.conversation_history, HistoryWindow)
    IN  [i \in DOMAIN past |-> Message(past[i].role, past[i].content)]
        \o <<Message("user", UserPrompt(retrieved.context, request.message))>>

\* lines 87-105; a history of None is skipped like the empty one
BuildMessages(request, retrieved) ==
    LET past == LastN(request.conversation_history, HistoryWindow)
    IN  [i \in DOMAIN past |-> Message(past[i].role, past[i].content)]
        \o <<Message("user", UserPrompt(retrieved.context, request.message))>>

\* ChatMessage: the i-th entry of a request history
HistoryEntry(role, i) == [role |-> role, content |-> <<"turn", ToString(i)>>]

Histories ==
    UNION {{[i \in 1..n |-> HistoryEntry(roles[i], i)] :
               roles \in [1..n -> {"user", "assistant"}]} : n \in 0..MaxHistory}

HistoryRequests ==
    [message : {<<"hello">>}, conversation_history : Histories,
     session_id : {SessionId(i) : i \in ClientSessionIds} \cup {NoSessionId}]

\* what retrieve_context gives on an index of at most one document
Contexts ==
    {RetrieveContext(ix) :
        ix \in {x \in IndexStates : x.kind # "init_raises" /\ Len(x.docs) <= 1}}

\* the registry is empty or holds the turns of one earlier exchange
StoredSessions ==
    {<<>>,
     Insert(<<>>, SessionId("s1"),
            [created_at |-> IsoFormat(0),
             history |-> <<UserTurn(<<"earlier question">>, 0),
                           AssistantTurn(LLMResponse(<<"earlier answer">>, "gpt-4",
                                                     "openai", "stop", PyNone), 0)>>,
             message_count |-> 1])}

InitMessages ==
    /\ InitSweepFactory /\ InitCall
    /\ conversations \in StoredSessions
    /\ conv_keys = IF conversations = <<>> THEN <<>> ELSE <<SessionId("s1")>>
    /\ now = 0
    /\ chat = IdleChat
    /\ chat_response = NoChatResponse
    /\ cleanup_tasks = 0
    /\ reaper = IdleReaper
    /\ nreq = 0
    /\ history_reply = NoHistoryReply
    /\ index = EmptyIndex
    /\ context_data \in Contexts
    /\ sdk_wait = IdleSdk(1)
    /\ InitBuilt
    /\ lookup = NoLookup
    /\ switch_reply = NoSwitchReply
    /\ stream = IdleStream
    /\ runs = <<>>
    /\ messages \in {[built |-> FALSE, request |-> r] : r \in HistoryRequests}

\* lines 87-105: the messages are built
BuildStep ==
    /\ ~messages.built
    /\ messages' = [built |-> TRUE, request |-> messages.request,
                    out |-> BuildMessages(messages.request, context_data)]
    /\ UNCHANGED <<factory_vars, call_vars, server_vars, history_reply, retrieval_vars,
                   sdk_wait, build_vars, lookup, switch_reply, stream, runs>>

NextMessages == BuildStep

SpecMessages == InitMessages /\ [][NextMessages]_vars

\* the text `part` occurs in `text`
Contains(text, part) ==
    \E i \in 0..(Len(text) - Len(part)) : SubSeq(text, i + 1, i + Len(part)) = part

\* C28: the messages passed to the backends are the last at most six entries
\* of the request's history in their order, then exactly one user message
\* carrying the retrieved context and the query; no turn stored in the
\* registry is among them
C28_MessagesFromRequest ==
    messages.built =>
        LET h == messages.request.conversation_history
            n == Len(h)
            k == IF n < HistoryWindow THEN n ELSE HistoryWindow
            out == messages.out
        IN  /\ Len(out) = k + 1
            /\ \A i \in 1..k : out[i] = [role |-> h[n - k + i].role,
                                         content |-> h[n - k + i].content]
            /\ out[k + 1].role = "user"
            /\ Contains(out[k + 1].content, context_data.context)
            /\ Contains(out[k + 1].content, messages.request.message)
            /\ \A s \in DOMAIN conversations :
                  \A t \in Range(conversations[s].history) :
                      \A i \in 1..k : out[i].content # t.content

\* a request with more entries than the window names a session that has
\* stored turns
C28_Witness ==
    /\ messages.built
    /\ Len(messages.request.conversation_history) > HistoryWindow
    /\ messages.request.session_id \in DOMAIN conversations
    /\ conversations[messages.request.session_id].history # <<>>
    /\ Len(messages.out) = HistoryWindow + 1
    /\ context_data.sources # <<>>

====
